---- MODULE Spec2Model ----
(***************************************************************************)
(* Model of the mail server of TP4_server.py (class Server): the select    *)
(* loop of Server.run, the session dictionary _logged_users, the list of   *)
(* accepted sockets _client_socs and the file tree under SERVER_DATA_DIR.  *)
(* Strings that the code inspects (usernames, passwords, destinations) are *)
(* sequences of one-character strings; strings it only stores or compares  *)
(* whole (subjects, dates, bodies) are TLA+ strings.                       *)
(***************************************************************************)
EXTENDS Integers, Sequences, FiniteSets, TLC

VARIABLES
    running,        \* the while-loop of Server.run has not left through break
    server_open,    \* _server_socket is open
    pending,        \* connections made by clients and not yet accepted
    client_socs,    \* _client_socs, in list order
    sock_closed,    \* accepted sockets on which the server called close()
    peer_closed,    \* connections whose client closed its end
    logged_users,   \* _logged_users: the (username, socket) items, in dict order
    passwd,         \* <data>/<name>/<PASSWORD_FILENAME>: name -> stored digest
    dirs,           \* the directories <data>/<name>
    mail,           \* <data>/<name>/email: name -> files in listing order
    lost,           \* the files of SERVER_LOST_DIR
    accepted,       \* the sockets that _server_socket.accept() has returned
    steps,          \* number of frames the loop has read so far
    last            \* the last frame read and what the loop did with it

vars == <<running, server_open, pending, client_socs, sock_closed, peer_closed,
          logged_users, passwd, dirs, mail, lost, accepted, steps, last>>

----------------------------------------------------------------------------
\* Bounds of the model.

\* Number of frames the loop reads before the model stops feeding it.
MaxReq == 4

\* The client connections that may be opened, each once.
Conns == {1, 2}

----------------------------------------------------------------------------
\* Strings.

UpperSeq == <<"A","B","C","D","E","F","G","H","I","J","K","L","M",
              "N","O","P","Q","R","S","T","U","V","W","X","Y","Z">>
LowerSeq == <<"a","b","c","d","e","f","g","h","i","j","k","l","m",
              "n","o","p","q","r","s","t","u","v","w","x","y","z">>

Range(s) == {s[i] : i \in DOMAIN s}

\* One character of str.lower().
LowerChar(ch) ==
    IF ch \in Range(UpperSeq)
    THEN LowerSeq[CHOOSE i \in DOMAIN UpperSeq : UpperSeq[i] = ch]
    ELSE ch

\* str.lower()
Lower(s) == [i \in DOMAIN s |-> LowerChar(s[i])]

\* re.search(r"[a-zA-Z]", username)
HasLetter(s) == \E i \in DOMAIN s : s[i] \in Range(UpperSeq) \cup Range(LowerSeq)

\* n copies of the character ch
Rep(ch, n) == [i \in 1..n |-> ch]

\* hashlib.sha3_224(password.encode('utf-8')).hexdigest(): a digest is kept
\* as the tagged preimage, so equal digests mean equal passwords.
Sha3Hex(password) == <<"sha3_224", password>>

\* The content of a file that open() has created or truncated and that
\* nothing was written to.
EmptyFile == <<>>

\* What a listing holds for an entry that is a folder: open() on it raises
\* IsADirectoryError.
Directory == <<"dir">>

\* gloutils.PASSWORD_FILENAME
PasswordFilename == "pass"

\* f"{username}@glo2000.ca", the sender the client puts in a payload
AtGlo(username) == username \o <<"@","g","l","o","2","0","0","0",".","c","a">>

----------------------------------------------------------------------------
\* Inputs.

Al == <<"a","l">>
AlUpper == <<"A","l">>
Bo == <<"b","o">>
Digits == <<"1","2">>
Em == <<"e","m","a","i","l">>

\* The empty string: nom_client of a connection without a binding, and a
\* destination a payload may carry.
NoName == <<>>

\* Em is the one username whose folder <data>/email is also the folder
\* <data>//email that the handlers read for the name "".
Usernames == {Al, AlUpper, Bo, Digits, Em}

\* Passwords of 9 and 10 characters, and a second one of 10.
Passwords == {Rep("p", 9), Rep("p", 10), Rep("q", 10)}

\* The payloads of AUTH_REGISTER: every username with the
\* first password of 10 characters, and Al with each password.
Credentials ==
    {cred \in Usernames \X Passwords : cred[2] = Rep("p", 10) \/ cred[1] = Al}

\* The payloads of AUTH_LOGIN: _login uses neither the password nor the
\* shape of the username, so two usernames and two passwords are enough.
LoginCredentials ==
    {cred \in Credentials : cred[1] \in {Al, Bo} /\ Len(cred[2]) > 9}

\* A payload's sender is a bare username or the address the client composes;
\* its destination is a name that may be registered (Al) or not (Bo), the
\* empty string, or "email".
Senders == {Al, AtGlo(Al)}
Destinations == {Al, Bo, NoName, Em}
Choices == 1..2

\* Two emails with the same subject and different bodies, a third with
\* another subject, and two subjects that are no file name: the empty one
\* and one with a "/" in it.
SubjectsAndContents ==
    {<<"hi", "A">>, <<"hi", "B">>, <<"yo", "A">>, <<"", "A">>, <<"a/b", "A">>}

\* Every subject and body from Al to Al; one subject and body are enough
\* for the other senders and destinations, which the code does not read
\* together with them, and one destination for the sender that is never a
\* key of the registry.
EmailPayloads ==
    {p \in {[sender |-> s, destination |-> d, subject |-> sc[1],
             date |-> "d", content |-> sc[2]] :
                s \in Senders, d \in Destinations,
                sc \in SubjectsAndContents} :
        \/ p.sender = Al /\ p.destination = Al
        \/ /\ p.subject = "hi" /\ p.content = "A"
           /\ p.sender = Al \/ p.destination = Al}

\* What stands for a key that a payload lacks: no username, password,
\* sender or destination is this sequence, no subject, date or body this
\* string, no choice this number.
Missing == <<"missing">>
MissingText == "missing"
MissingChoice == 0 - 1

\* The headers whose branch of run() reads keys of the payload.
PayloadHeaders ==
    {"AUTH_REGISTER", "AUTH_LOGIN", "INBOX_READING_CHOICE", "EMAIL_SENDING"}

\* The payload of a frame that has none, or an empty one, as its handler
\* sees it: every key it reads is missing.
NoPayload(header) ==
    CASE header \in {"AUTH_REGISTER", "AUTH_LOGIN"} ->
           [username |-> Missing, password |-> Missing]
      [] header = "INBOX_READING_CHOICE" -> [choice |-> MissingChoice]
      [] OTHER ->
           [sender |-> Missing, destination |-> Missing,
            subject |-> MissingText, date |-> MissingText,
            content |-> MissingText]

----------------------------------------------------------------------------
\* What glosocket.send_msg is given: the text of one frame.

\* json.dumps(gloutils.GloMessage(header=h))
JsonMsg(h) == <<"msg", h>>

\* json.dumps(gloutils.GloMessage(header=h, payload=reason))
JsonMsgPayload(h, reason) == <<"msg", h, reason>>

\* json.dumps(None): what run() sends when a handler returned send_msg's result
JsonNull == <<"null">>

\* json.dumps(gloutils.GloMessage()): the empty object
JsonEmpty == <<"obj">>

\* json.dumps(liste_mail)
JsonList(l) == <<"list", l>>

\* json.dumps(payload), the text written to a mail file
JsonDumps(payload) == <<"json", payload>>

\* The texts json.load can parse: the files _send_email wrote whole. A
\* digest, an empty file and a folder make it (or open) raise.
IsJson(text) == Len(text) = 2 /\ text[1] = "json"

NotJson == [error |-> "JSONDecodeError"]

\* json.load / json.loads of a text
JsonLoads(text) == IF IsJson(text) THEN text[2] ELSE NotJson

----------------------------------------------------------------------------
\* The dictionary _logged_users, kept as its items in insertion order.

Keys(d) == {d[i].name : i \in DOMAIN d}

Get(d, k) == d[CHOOSE i \in DOMAIN d : d[i].name = k].soc

\* d[k] = v
Put(d, k, v) ==
    IF k \in Keys(d)
    THEN [i \in DOMAIN d |-> IF d[i].name = k THEN [name |-> k, soc |-> v] ELSE d[i]]
    ELSE Append(d, [name |-> k, soc |-> v])

\* del d[k]
Del(d, k) == SelectSeq(d, LAMBDA e : e.name # k)

\* The loop "for nom, soc in items(): if soc == client_soc: nom_client = nom"
\* leaves the last matching key, or the initial value.
NameOf(d, client_soc, initial) ==
    LET hits == {i \in DOMAIN d : d[i].soc = client_soc}
    IN IF hits = {} THEN initial
       ELSE d[CHOOSE i \in hits : \A j \in hits : j <= i].name

----------------------------------------------------------------------------
\* The state after Server.__init__.

NoRequest ==
    [seq |-> 0, conn |-> 0, header |-> "NONE", payload |-> <<>>,
     frames |-> <<>>, relays |-> <<>>, raised |-> FALSE]

\* Lines 32-35: __init__ creates the data folders only when they are
\* missing, so the server starts on whatever tree an earlier run left: none,
\* or the account of Al with one email.
EmptyDisk == [passwd |-> <<>>, dirs |-> {}, mail |-> <<>>]

UsedDisk ==
    [passwd |-> (Al :> Sha3Hex(Rep("p", 10))),
     dirs |-> {Al},
     mail |-> (Al :> <<[name |-> "hi",
                        text |-> JsonDumps([sender |-> Al, destination |-> Al,
                                            subject |-> "hi", date |-> "d",
                                            content |-> "A"])]>>)]

Disks == {EmptyDisk, UsedDisk}

Init ==
    /\ running = TRUE
    /\ server_open = TRUE
    /\ pending = {}
    /\ client_socs = <<>>
    /\ sock_closed = {}
    /\ peer_closed = {}
    /\ logged_users = <<>>
    /\ \E disk \in Disks :
          /\ passwd = disk.passwd
          /\ dirs = disk.dirs
          /\ mail = disk.mail
    /\ lost = {}
    /\ accepted = {}
    /\ steps = 0
    /\ last = NoRequest

----------------------------------------------------------------------------
\* The loop of Server.run.

\* A client opens a connection to the listening socket.
Connect(c) ==
    /\ server_open
    /\ c \notin pending \cup accepted
    /\ pending' = pending \cup {c}
    /\ UNCHANGED <<running, server_open, client_socs, sock_closed, peer_closed,
                   logged_users, passwd, dirs, mail, lost, accepted, steps, last>>

\* A client closes its socket.
PeerClose(c) ==
    /\ running
    /\ c \in Range(client_socs)
    /\ c \notin peer_closed
    /\ peer_closed' = peer_closed \cup {c}
    /\ UNCHANGED <<running, server_open, pending, client_socs, sock_closed,
                   logged_users, passwd, dirs, mail, lost, accepted, steps, last>>

\* select reports the listening socket: _accept_client
AcceptClient(c) ==
    /\ running
    /\ c \in pending
    /\ pending' = pending \ {c}
    /\ accepted' = accepted \cup {c}
    /\ client_socs' = Append(client_socs, c)
    /\ UNCHANGED <<running, server_open, sock_closed, peer_closed,
                   logged_users, passwd, dirs, mail, lost, steps, last>>

\* select reports client socket c, and recv_msg returns a frame.
Read(c) ==
    /\ running
    /\ c \in Range(client_socs)
    /\ c \notin peer_closed
    /\ steps < MaxReq

\* Every send_msg of the branch succeeds and the loop goes on.
AllSent(c, header, payload, frames, relays) ==
    /\ steps' = steps + 1
    /\ last' = [seq |-> steps + 1, conn |-> c, header |-> header,
                payload |-> payload, frames |-> frames, relays |-> relays,
                raised |-> FALSE]
    /\ UNCHANGED <<running, server_open, pending, client_socs, sock_closed,
                   peer_closed, lost, accepted>>

\* The number of frames written before a send_msg fails, when the client
\* closed its socket after sending the request: any send of the branch can
\* be the one that raises. After a reset of the connection the first send
\* raises ConnectionResetError; after an orderly close a send succeeds and
\* the next one raises BrokenPipeError.
FailPoints(c, frames) == 0..(Len(frames) - 1)

\* send_msg number k + 1 raises: the handler's effects stay, the exception
\* reaches "except Exception": break, then cleanup().
SendFails(c, header, payload, frames, relays, k) ==
    /\ steps' = steps + 1
    /\ last' = [seq |-> steps + 1, conn |-> c, header |-> header,
                payload |-> payload, frames |-> SubSeq(frames, 1, k),
                relays |-> relays, raised |-> TRUE]
    /\ peer_closed' = peer_closed \cup {c}
    /\ running' = FALSE
    /\ sock_closed' = sock_closed \cup Range(client_socs)
    /\ server_open' = FALSE
    /\ UNCHANGED <<pending, client_socs, lost, accepted>>

\* Lines 382-383: KeyboardInterrupt after recv_msg returned the frame, while
\* its branch of run() is at work: what the branch has done stays, the rest
\* of it is skipped, break, then cleanup(). frames are the frames written
\* before the interrupt; the client's socket is closed by the server only.
Interrupted(c, header, payload, frames, relays) ==
    /\ steps' = steps + 1
    /\ last' = [seq |-> steps + 1, conn |-> c, header |-> header,
                payload |-> payload, frames |-> frames, relays |-> relays,
                raised |-> FALSE]
    /\ running' = FALSE
    /\ sock_closed' = sock_closed \cup Range(client_socs)
    /\ server_open' = FALSE
    /\ UNCHANGED <<pending, client_socs, peer_closed, lost, accepted>>

\* KeyboardInterrupt between recv_msg and the first effect of the branch.
CutShort(c, header, payload) ==
    /\ Interrupted(c, header, payload, <<>>, <<>>)
    /\ UNCHANGED <<logged_users, passwd, dirs, mail>>

\* The sends of one branch of run(), after the handler's effects: all
\* succeed, or one fails because the client has gone, or KeyboardInterrupt
\* arrives before one of them.
Answer(c, header, payload, frames, relays) ==
    \/ AllSent(c, header, payload, frames, relays)
    \/ \E k \in FailPoints(c, frames) :
          SendFails(c, header, payload, frames, relays, k)
    \/ \E k \in 0..(Len(frames) - 1) :
          Interrupted(c, header, payload, SubSeq(frames, 1, k), relays)

\* "except Exception: break" with no cleanup() after the loop.
RaiseWithoutCleanup(c, header, payload, frames, relays) ==
    /\ steps' = steps + 1
    /\ last' = [seq |-> steps + 1, conn |-> c, header |-> header,
                payload |-> payload, frames |-> frames, relays |-> relays,
                raised |-> TRUE]
    /\ running' = FALSE
    /\ UNCHANGED <<server_open, pending, client_socs, sock_closed,
                   peer_closed, lost, accepted>>

\* An exception reaches "except Exception": break, then cleanup().
Raise(c, header, payload, frames, relays) ==
    /\ steps' = steps + 1
    /\ last' = [seq |-> steps + 1, conn |-> c, header |-> header,
                payload |-> payload, frames |-> frames, relays |-> relays,
                raised |-> TRUE]
    /\ running' = FALSE
    /\ sock_closed' = sock_closed \cup Range(client_socs)
    /\ server_open' = FALSE
    /\ UNCHANGED <<pending, client_socs, peer_closed, lost, accepted>>

\* Lines 382-383: KeyboardInterrupt in select or in recv_msg, or in
\* _accept_client between accept() (line 71) and append (line 72): break,
\* then cleanup(); no frame is read. A socket that accept() returned and
\* append did not store is in neither the backlog nor _client_socs, and
\* cleanup() does not close it.
Interrupt ==
    /\ running
    /\ running' = FALSE
    /\ sock_closed' = sock_closed \cup Range(client_socs)
    /\ server_open' = FALSE
    /\ \/ UNCHANGED <<pending, accepted>>
       \/ \E c \in pending :
             /\ pending' = pending \ {c}
             /\ accepted' = accepted \cup {c}
    /\ UNCHANGED <<client_socs, peer_closed, logged_users, passwd,
                   dirs, mail, lost, steps, last>>

----------------------------------------------------------------------------
\* Session handlers.

\* The duplicate check as it would run if the stored socket were turned into
\* text before .lower(): no username ever equals it.
TakenCheckNeverMatches(username) == "free"

\* The duplicate check as it would run over the stored names instead of the
\* stored sockets.
TakenCheckByName(username) ==
    IF \E n \in Keys(logged_users) : Lower(n) = Lower(username)
    THEN "taken" ELSE "free"

\* Lines 137-140 of _create_account, "Check if the username is already taken":
\* the loop reads self._logged_users[user_index].lower(), and the value is a
\* socket, which has no attribute lower: the first iteration raises
\* AttributeError. "free" when the loop body never runs.
TakenCheck(username) ==
    IF logged_users # <<>> THEN "raise" ELSE "free"

\* Lines 143-151: the credential policy.
CredentialsValid(username, password) ==
    HasLetter(username) /\ Len(password) > 9

\* The listing of <data>//email after os.mkdir(<data>/<username>) and
\* what followed left the entries files in the new folder: <data>//email
\* is the folder of the username "email".
TopListing(username, files) ==
    IF username = Em THEN (NoName :> files) @@ mail ELSE mail

\* Lines 155-165 of _create_account: bind, then create the folder once.
CreateFolder(username, password) ==
    IF username \in dirs
    THEN UNCHANGED <<dirs, passwd, mail>>
    ELSE /\ dirs' = dirs \cup {username}
         /\ passwd' = (username :> Sha3Hex(password)) @@ passwd
         /\ mail' = TopListing(username,
                               <<[name |-> PasswordFilename,
                                  text |-> Sha3Hex(password)]>>)

\* Lines 161-165 cut short by KeyboardInterrupt: nothing made yet, or the
\* folder made (line 163) with no password file, or with the file opened
\* (line 164) and nothing written to it.
FolderCut(username) ==
    \/ UNCHANGED <<dirs, passwd, mail>>
    \/ /\ username \notin dirs
       /\ dirs' = dirs \cup {username}
       /\ \/ /\ UNCHANGED passwd
             /\ mail' = TopListing(username, <<>>)
          \/ /\ passwd' = (username :> EmptyFile) @@ passwd
             /\ mail' = TopListing(username,
                                   <<[name |-> PasswordFilename,
                                      text |-> EmptyFile]>>)

\* AUTH_REGISTER: send_msg(soc_c, json.dumps(self._create_account(...)))
Register(c, username, password) ==
    LET payload == [username |-> username, password |-> password]
        taken == TakenCheck(username)
    IN
    /\ Read(c)
    /\ \/ CutShort(c, "AUTH_REGISTER", payload)
       \/ /\ taken = "raise"
          /\ Raise(c, "AUTH_REGISTER", payload, <<>>, <<>>)
          /\ UNCHANGED <<logged_users, passwd, dirs, mail>>
       \/ /\ taken = "taken"
          \* line 140 returns the message and run() sends it
          /\ Answer(c, "AUTH_REGISTER", payload, <<JsonMsg("ERROR")>>, <<>>)
          /\ UNCHANGED <<logged_users, passwd, dirs, mail>>
       \/ /\ taken = "free"
          /\ ~CredentialsValid(username, password)
          \* line 152 sends ERROR and returns None, which run() sends too
          /\ Answer(c, "AUTH_REGISTER", payload,
                    <<JsonMsg("ERROR"), JsonNull>>, <<>>)
          /\ UNCHANGED <<logged_users, passwd, dirs, mail>>
       \/ /\ taken = "free"
          /\ CredentialsValid(username, password)
          /\ logged_users' = Put(logged_users, username, c)
          /\ \/ /\ CreateFolder(username, password)
                /\ Answer(c, "AUTH_REGISTER", payload,
                          <<JsonMsg("OK"), JsonNull>>, <<>>)
             \/ /\ FolderCut(username)
                /\ Interrupted(c, "AUTH_REGISTER", payload, <<>>, <<>>)

\* The header _login would send if it compared the digest of the password
\* with the stored one.
LoginHeaderByPassword(c, username, password) ==
    IF username \in DOMAIN passwd /\ passwd[username] = Sha3Hex(password)
    THEN "OK" ELSE "ERROR"

\* Lines 189-199 of _login: the header it sends.
LoginHeader(c, username, password) ==
    IF username \in Keys(logged_users)
    THEN IF Get(logged_users, username) = c THEN "OK" ELSE "ERROR"
    ELSE "ERROR"

\* AUTH_LOGIN: send_msg(soc_c, json.dumps(self._login(...)))
Login(c, username, password) ==
    LET payload == [username |-> username, password |-> password]
    IN
    /\ Read(c)
    \* KeyboardInterrupt before the first send leaves the state of a cut
    \* handler: _login has no effect of its own
    /\ Answer(c, "AUTH_LOGIN", payload,
              <<JsonMsg(LoginHeader(c, username, password)), JsonNull>>, <<>>)
    /\ UNCHANGED <<logged_users, passwd, dirs, mail>>

\* The dictionary after logged_users.clear().
LoggedOutAll(c) == <<>>

\* _logout: the dictionary afterwards.
LoggedOut(c) ==
    LET nom == NameOf(logged_users, c, NoName)
    IN IF nom # NoName THEN Del(logged_users, nom) ELSE logged_users

\* AUTH_LOGOUT: send_msg(soc_c, json.dumps(self._logout(soc_c)))
Logout(c) ==
    /\ Read(c)
    /\ \/ CutShort(c, "AUTH_LOGOUT", <<>>)
       \/ /\ logged_users' = LoggedOut(c)
          /\ Answer(c, "AUTH_LOGOUT", <<>>, <<JsonNull>>, <<>>)
          /\ UNCHANGED <<passwd, dirs, mail>>

\* BYE: self._logout(soc_c), and nothing else
Bye(c) ==
    /\ Read(c)
    /\ \/ CutShort(c, "BYE", <<>>)
       \/ /\ logged_users' = LoggedOut(c)
          /\ Answer(c, "BYE", <<>>, <<>>, <<>>)
          /\ UNCHANGED <<passwd, dirs, mail>>

----------------------------------------------------------------------------
\* Mailbox handlers.

\* os.path.exists(<data>/<nom>/email). mail keeps under the name "" the
\* listing of <data>//email, which is the folder <data>/email: the password
\* file and the email folder of the account "email", and the files written
\* for the destination "".
EmailDirExists(nom) == nom \in DOMAIN mail

\* os.listdir(<data>/<nom>/email): the file names, in listing order
ListDir(nom) == [i \in DOMAIN mail[nom] |-> mail[nom][i].name]

\* The text of <data>/<nom>/email/<name>
FileText(nom, name) ==
    mail[nom][CHOOSE i \in DOMAIN mail[nom] : mail[nom][i].name = name].text

\* gloutils.SUBJECT_DISPLAY.format(number=..., sender=..., subject=..., date=...)
SubjectDisplay(number, contenu) ==
    [number |-> number, sender |-> contenu.sender,
     subject |-> contenu.subject, date |-> contenu.date]

\* Lines 217-238 of _get_email_list: liste_mail
EmailList(c) ==
    LET nom_client == NameOf(logged_users, c, NoName)
    IN IF EmailDirExists(nom_client)
       THEN LET liste == ListDir(nom_client)
            IN [o \in DOMAIN liste |->
                   SubjectDisplay(o, JsonLoads(FileText(nom_client, liste[o])))]
       ELSE <<>>

\* Lines 229-233: every entry of the listing is opened and parsed; a folder
\* makes open() raise, a file that is no JSON text makes json.load raise.
ListRaises(c) ==
    LET nom_client == NameOf(logged_users, c, NoName)
    IN /\ EmailDirExists(nom_client)
       /\ \E i \in DOMAIN mail[nom_client] : ~IsJson(mail[nom_client][i].text)

\* INBOX_READING_REQUEST: _get_email_list sends the list and returns
\* GloMessage(), which run() sends as well.
InboxList(c) ==
    /\ Read(c)
    /\ UNCHANGED <<logged_users, passwd, dirs, mail>>
    /\ IF ListRaises(c)
       THEN \/ Raise(c, "INBOX_READING_REQUEST", <<>>, <<>>, <<>>)
            \/ Interrupted(c, "INBOX_READING_REQUEST", <<>>, <<>>, <<>>)
       ELSE Answer(c, "INBOX_READING_REQUEST", <<>>,
                   <<JsonList(EmailList(c)), JsonEmpty>>, <<>>)

\* Lines 268-277 of _get_email: the file name the loop leaves in courr,
\* "" when no listing position equals choice - 1.
ChosenFile(nom, choice) ==
    LET liste == ListDir(nom)
        choix == choice - 1
    IN IF \E o \in DOMAIN liste : o - 1 = choix THEN liste[choix + 1] ELSE ""

\* INBOX_READING_CHOICE: os.listdir raises FileNotFoundError without the
\* folder, open() raises IsADirectoryError on <folder>/ + "" and on an entry
\* that is a folder; the text of any other file is sent as it is.
InboxChoice(c, choice) ==
    LET nom_client == NameOf(logged_users, c, NoName)
        payload == [choice |-> choice]
    IN
    /\ Read(c)
    /\ \/ CutShort(c, "INBOX_READING_CHOICE", payload)
       \/ /\ UNCHANGED <<logged_users, passwd, dirs, mail>>
          /\ IF ~EmailDirExists(nom_client)
             THEN Raise(c, "INBOX_READING_CHOICE", payload, <<>>, <<>>)
             ELSE IF \/ ChosenFile(nom_client, choice) = ""
                     \/ FileText(nom_client, ChosenFile(nom_client, choice))
                           = Directory
             THEN Raise(c, "INBOX_READING_CHOICE", payload, <<>>, <<>>)
             ELSE Answer(c, "INBOX_READING_CHOICE", payload,
                         <<FileText(nom_client, ChosenFile(nom_client, choice)),
                           JsonEmpty>>, <<>>)

\* A frame with one of the other headers of gloutils.Headers: run() has no
\* branch for it either.
NoBranch(c) ==
    /\ Read(c)
    /\ \/ CutShort(c, "OK", <<>>)
       \/ /\ Answer(c, "OK", <<>>, <<>>, <<>>)
          /\ UNCHANGED <<logged_users, passwd, dirs, mail>>

\* A frame whose header has a branch that reads the payload, and whose
\* payload is absent or has none of the keys: dico["payload"] or the first
\* payload[key] of the handler raises KeyError or TypeError, before the
\* handler has done anything.
Malformed(c, header) ==
    /\ Read(c)
    /\ \/ CutShort(c, header, NoPayload(header))
       \/ /\ Raise(c, header, NoPayload(header), <<>>, <<>>)
          /\ UNCHANGED <<logged_users, passwd, dirs, mail>>

\* STATS_REQUEST: run() has no branch for it, the frame is read and dropped.
Stats(c) ==
    /\ Read(c)
    /\ \/ CutShort(c, "STATS_REQUEST", <<>>)
       \/ /\ Answer(c, "STATS_REQUEST", <<>>, <<>>, <<>>)
          /\ UNCHANGED <<logged_users, passwd, dirs, mail>>

----------------------------------------------------------------------------
\* Mail routing.

\* Line 331-333: client_soc = self._logged_users.get(user_nm); if client_soc
LocalBranch(payload) == payload.sender \in Keys(logged_users)

InsertAt(seq, pos, e) ==
    SubSeq(seq, 1, pos - 1) \o <<e>> \o SubSeq(seq, pos, Len(seq))

\* open(<dest>/email/<sujet>, 'w').write(json.dumps(payload)): an existing
\* file is truncated and keeps its directory entry; a new entry appears at
\* position pos of the listing.
WriteFile(files, name, text, pos) ==
    IF \E i \in DOMAIN files : files[i].name = name
    THEN [i \in DOMAIN files |->
             IF files[i].name = name THEN [name |-> name, text |-> text]
             ELSE files[i]]
    ELSE InsertAt(files, pos, [name |-> name, text |-> text])

\* <data>/<dest>: the folder of <data>/ + "" is <data> itself, and its
\* email folder is the folder of the name "email".
TopFolder(dest) == IF dest = NoName THEN Em ELSE dest

\* The listing of <data>//email, empty when the folder is absent.
TopFiles == IF NoName \in DOMAIN mail THEN mail[NoName] ELSE <<>>

\* Lines 334-335: os.makedirs(<data>/<dest>/email) when the folder is
\* absent: the mailboxes afterwards. The new folder <data>/email/email
\* appears as an entry of <data>//email, at a position of the file
\* system's choice.
MadeDirs(dest) ==
    IF dest \in DOMAIN mail THEN {mail}
    ELSE IF dest = Em
    THEN {(Em :> <<>>)
            @@ (NoName :> InsertAt(TopFiles, pos,
                                   [name |-> "email", text |-> Directory]))
            @@ mail : pos \in 1..(Len(TopFiles) + 1)}
    ELSE {(dest :> <<>>) @@ mail}

\* Line 336: open(os.path.join(<dest>/email, sujet), 'w') raises
\* IsADirectoryError for the subject "" and FileNotFoundError for a subject
\* that names a file in a folder that does not exist.
Unwritable(sujet) == sujet \in {"", "a/b"}

\* Lines 334-338 of _send_email.
StoreLocal(payload) ==
    LET dest == payload.destination
    IN \E made \in MadeDirs(dest) :
          \E pos \in 1..(Len(made[dest]) + 1) :
             /\ dirs' = dirs \cup {TopFolder(dest)}
             /\ mail' = (dest :> WriteFile(made[dest], payload.subject,
                                           JsonDumps(payload), pos)) @@ made

\* Lines 334-336 when open() raises: the folders are made, no file is.
StoreFails(payload) ==
    \E made \in MadeDirs(payload.destination) :
       /\ dirs' = dirs \cup {TopFolder(payload.destination)}
       /\ mail' = made

\* Lines 334-337 cut short by KeyboardInterrupt: os.makedirs has made
\* <data>/<dest> only, or <dest>/email too, or the file is opened (mode 'w'
\* truncates an existing one) and nothing is written to it.
StoreCut(payload) ==
    LET dest == payload.destination
    IN \/ /\ TopFolder(dest) \notin dirs
          /\ dirs' = dirs \cup {TopFolder(dest)}
          /\ mail' = TopListing(TopFolder(dest), <<>>)
       \/ /\ dest \notin DOMAIN mail
          /\ StoreFails(payload)
       \/ /\ ~Unwritable(payload.subject)
          /\ \E made \in MadeDirs(dest) :
                \E pos \in 1..(Len(made[dest]) + 1) :
                   /\ dirs' = dirs \cup {TopFolder(dest)}
                   /\ mail' = (dest :> WriteFile(made[dest], payload.subject,
                                                 EmptyFile, pos)) @@ made

\* What smtplib.SMTP(...) / send_message can do (lines 345-352): succeed,
\* raise SMTPException, raise socket.timeout, raise another OSError
\* (connection refused, name resolution), which no except clause of
\* _send_email catches, or be cut by KeyboardInterrupt, which only run()
\* catches.
SmtpOutcomes == {"sent", "SMTPException", "timeout", "OSError", "interrupted"}

\* Lines 349-351: the exceptions of the relay that _send_email catches.
RelayCaught(outcome) == outcome \in {"SMTPException", "timeout"}

\* Lines 350 and 352: the payload of the ERROR message, str(e) for an
\* SMTPException.
RelayReason(outcome) ==
    IF outcome = "SMTPException" THEN "SMTPException"
    ELSE "Echec de la connexion."

\* EMAIL_SENDING: send_msg(soc_c, json.dumps(self._send_email(payload)))
SendEmail(c, payload) ==
    /\ Read(c)
    /\ \/ CutShort(c, "EMAIL_SENDING", payload)
       \/ /\ UNCHANGED <<logged_users, passwd>>
          /\ LocalBranch(payload)
          /\ \/ /\ ~Unwritable(payload.subject)
                /\ StoreLocal(payload)
                /\ Answer(c, "EMAIL_SENDING", payload, <<JsonMsg("OK")>>,
                          <<>>)
             \/ /\ Unwritable(payload.subject)
                /\ StoreFails(payload)
                /\ Raise(c, "EMAIL_SENDING", payload, <<>>, <<>>)
             \/ /\ StoreCut(payload)
                /\ Interrupted(c, "EMAIL_SENDING", payload, <<>>, <<>>)
       \/ /\ UNCHANGED <<logged_users, passwd, dirs, mail>>
          /\ ~LocalBranch(payload)
          /\ \E outcome \in SmtpOutcomes :
                CASE outcome = "sent" ->
                       Answer(c, "EMAIL_SENDING", payload,
                              <<JsonMsg("OK")>>, <<outcome>>)
                  [] RelayCaught(outcome) ->
                       Answer(c, "EMAIL_SENDING", payload,
                              <<JsonMsgPayload("ERROR",
                                               RelayReason(outcome))>>,
                              <<outcome>>)
                  [] outcome = "interrupted" ->
                       Interrupted(c, "EMAIL_SENDING", payload, <<>>,
                                   <<outcome>>)
                  [] OTHER ->
                       Raise(c, "EMAIL_SENDING", payload, <<>>,
                             <<outcome>>)

----------------------------------------------------------------------------
\* Transport failures.

\* recv_msg on a connection the peer closed raises GLOSocketError.
ReadClosed(c) ==
    /\ running
    /\ c \in Range(client_socs)
    /\ c \in peer_closed
    /\ Raise(c, "EOF", <<>>, <<>>, <<>>)
    /\ UNCHANGED <<logged_users, passwd, dirs, mail>>

\* A frame that recv_msg cannot read whole, that json.loads cannot parse,
\* or whose value has no "header" (line 368 raises KeyError or TypeError);
\* KeyboardInterrupt can arrive between recv_msg and json.loads.
ReadGarbage(c) ==
    /\ Read(c)
    /\ \/ CutShort(c, "GARBAGE", <<>>)
       \/ /\ Raise(c, "GARBAGE", <<>>, <<>>, <<>>)
          /\ UNCHANGED <<logged_users, passwd, dirs, mail>>

----------------------------------------------------------------------------

Next ==
    \/ Interrupt
    \/ \E c \in Conns :
        \/ Connect(c)
        \/ PeerClose(c)
        \/ AcceptClient(c)
        \/ \E cred \in Credentials : Register(c, cred[1], cred[2])
        \/ \E cred \in LoginCredentials : Login(c, cred[1], cred[2])
        \/ Logout(c)
        \/ Bye(c)
        \/ InboxList(c)
        \/ \E choice \in Choices : InboxChoice(c, choice)
        \/ Stats(c)
        \/ NoBranch(c)
        \/ \E header \in PayloadHeaders : Malformed(c, header)
        \/ \E payload \in EmailPayloads : SendEmail(c, payload)
        \/ ReadClosed(c)
        \/ ReadGarbage(c)

Spec == Init /\ [][Next]_vars

----------------------------------------------------------------------------
\* Vocabulary of the properties.

\* The step read a frame.
Served == last'.seq # last.seq

\* This step read a frame and its branch of run() ran to its end or to an
\* exception: KeyboardInterrupt did not cut it short.
Handled == Served /\ (running' \/ last'.raised)

\* The header of the first frame the server wrote for the last frame read,
\* "" if none. It is what went on the wire, not what a client that reads one
\* frame per request takes for its answer (C4).
FirstHeader(l) ==
    IF l.frames # <<>> /\ l.frames[1][1] = "msg" THEN l.frames[1][2] ELSE ""

\* The usernames bound to connection c.
BoundTo(d, c) == {d[i].name : i \in {j \in DOMAIN d : d[j].soc = c}}

\* An account exists: registration wrote its digest.
Registered(name) == name \in DOMAIN passwd

\* An account exists under a name equal to this one up to case.
RegisteredAnyCase(name) == \E n \in DOMAIN passwd : Lower(n) = Lower(name)

----------------------------------------------------------------------------
\* C1: in every reachable state each username is bound to at most one
\* connection and each connection to at most one username, whatever requests
\* were served.
C1_OneSessionPerUserAndConnection ==
    /\ \A i, j \in DOMAIN logged_users :
          logged_users[i].name = logged_users[j].name => i = j
    /\ \A c \in Conns : Cardinality(BoundTo(logged_users, c)) <= 1

\* On a server started on an empty tree, a second account has just been
\* registered and bound, after the first account's binding was removed by
\* AUTH_LOGOUT or BYE.
C1_Witness ==
    /\ Len(logged_users) = 1
    /\ last.header = "AUTH_REGISTER"
    /\ FirstHeader(last) = "OK"
    /\ Cardinality(DOMAIN passwd) >= 2
    /\ mail = <<>>

\* C2: for a username with a letter and a password longer than 9, the first
\* AUTH_REGISTER of the username is answered OK, and every later one whose
\* username equals it up to case is answered ERROR and creates no binding.
C2_RegistrationSucceedsExactlyOnce ==
    [][ (/\ Served
         /\ last'.header = "AUTH_REGISTER"
         /\ CredentialsValid(last'.payload.username, last'.payload.password))
        => IF RegisteredAnyCase(last'.payload.username)
           THEN FirstHeader(last') = "ERROR" /\ logged_users' = logged_users
           ELSE FirstHeader(last') = "OK" ]_vars

\* C3: for a registered account, AUTH_LOGIN with the registration password is
\* answered OK and with any other password ERROR, from any connection and
\* whether or not the account is bound.
C3_LoginChecksPassword ==
    [][ (/\ Served
         /\ last'.header = "AUTH_LOGIN"
         /\ Registered(last'.payload.username))
        => FirstHeader(last') =
             IF Sha3Hex(last'.payload.password) = passwd[last'.payload.username]
             THEN "OK" ELSE "ERROR" ]_vars

\* C4: every parsed request other than BYE gets exactly one response frame
\* on its connection, and BYE gets none.
C4_OneFramePerRequest ==
    /\ last.header \in {"AUTH_REGISTER", "AUTH_LOGIN", "AUTH_LOGOUT",
                        "INBOX_READING_REQUEST", "INBOX_READING_CHOICE",
                        "EMAIL_SENDING", "STATS_REQUEST"}
          => Len(last.frames) = 1
    /\ last.header = "BYE" => last.frames = <<>>

\* C5: when a connection is closed by its peer or delivers an unreadable
\* frame, the server drops that connection alone (socket closed, session
\* removed), keeps running, and leaves the other connections accepted with
\* their bindings.
C5_TransportErrorIsolated ==
    [][ (Served /\ last'.header \in {"EOF", "GARBAGE"})
        => /\ running'
           /\ last'.conn \notin Range(client_socs')
           /\ last'.conn \in sock_closed'
           /\ BoundTo(logged_users', last'.conn) = {}
           /\ \A c \in Range(client_socs) \ {last'.conn} :
                 /\ c \in Range(client_socs')
                 /\ c \in sock_closed' <=> c \in sock_closed
                 /\ BoundTo(logged_users', c) = BoundTo(logged_users, c) ]_vars

\* C6: after a BYE from connection c, c is no longer waited on, its socket is
\* closed, no username is bound to it, and no response was sent.
C6_ByeTearsDown ==
    last.header = "BYE"
    => /\ last.conn \notin Range(client_socs)
       /\ last.conn \in sock_closed
       /\ BoundTo(logged_users, last.conn) = {}
       /\ last.frames = <<>>

\* The authentication request just read is one the registry must reject:
\* a login of an unknown user, a login with a password other than the
\* registered one, or a login or registration of a username that is bound
\* to a connection already (for a login: to another connection).
C7_Rejected(l) ==
    LET u == l.payload.username
    IN \/ /\ l.header = "AUTH_LOGIN"
          /\ \/ ~Registered(u)
             \/ Registered(u) /\ Sha3Hex(l.payload.password) # passwd[u]
             \/ u \in Keys(logged_users) /\ Get(logged_users, u) # l.conn
       \/ /\ l.header = "AUTH_REGISTER"
          /\ \E k \in Keys(logged_users) : Lower(k) = Lower(u)

\* C7: a rejected authentication request is answered ERROR, and afterwards
\* its connection is still open and the loop still runs.
C7_AuthRejectionNotFatal ==
    [][ (Served /\ last'.header \in {"AUTH_LOGIN", "AUTH_REGISTER"}
                /\ C7_Rejected(last'))
        => /\ FirstHeader(last') = "ERROR"
           /\ running'
           /\ last'.conn \in Range(client_socs')
           /\ last'.conn \notin sock_closed' ]_vars

\* C8: an AUTH_REGISTER whose username has no letter or whose password has
\* at most 9 characters is answered ERROR, creates no account on disk, adds
\* no binding, and leaves the server running.
C8_InvalidRegistrationRejected ==
    [][ (/\ Served
         /\ last'.header = "AUTH_REGISTER"
         /\ ~CredentialsValid(last'.payload.username, last'.payload.password))
        => /\ FirstHeader(last') = "ERROR"
           /\ dirs' = dirs /\ passwd' = passwd
           /\ logged_users' = logged_users
           /\ running' ]_vars

\* The mailbox of name holds a file with this payload's text.
Stored(m, name, payload) ==
    /\ name \in DOMAIN m
    /\ \E i \in DOMAIN m[name] : m[name][i].text = JsonDumps(payload)

\* Number of emails stored for name.
Count(m, name) == IF name \in DOMAIN m THEN Len(m[name]) ELSE 0

\* C9: an EMAIL_SENDING whose destination is a known local account is
\* appended to that account's mailbox and answered OK, whoever the sender is.
C9_LocalDestinationDelivered ==
    [][ (/\ Served
         /\ last'.header = "EMAIL_SENDING"
         /\ Registered(last'.payload.destination))
        => /\ Stored(mail', last'.payload.destination, last'.payload)
           /\ FirstHeader(last') = "OK" ]_vars

\* C10: sending to an existing local account raises its number of stored
\* emails by exactly one, and INBOX_READING_CHOICE at the new email's display
\* index returns the sender, subject, date and content that were sent.
C10_SendAddsOneRetrievableEmail ==
    [][ (/\ Served
         /\ last'.header = "EMAIL_SENDING"
         /\ Registered(last'.payload.destination))
        => LET dest == last'.payload.destination
           IN /\ Count(mail', dest) = Count(mail, dest) + 1
              /\ \E i \in 1..Count(mail', dest) :
                    JsonLoads(mail'[dest][i].text) = last'.payload ]_vars

----------------------------------------------------------------------------
\* Vocabulary of the mail properties.

\* The name is an account the server knows: it was registered or is bound.
KnownAccount(name) == Registered(name) \/ name \in Keys(logged_users)

\* The destination has the shape of an external address.
HasAt(dest) == \E i \in DOMAIN dest : dest[i] = "@"

\* The username the handlers resolve for connection c.
Acting(c) == NameOf(logged_users, c, NoName)

\* C11: an EMAIL_SENDING whose destination is neither a known local account
\* nor an external address is stored in the lost-mail area and answered
\* ERROR; it is not written into an account mailbox.
C11_UnroutableGoesToLost ==
    [][ (/\ Served
         /\ last'.header = "EMAIL_SENDING"
         /\ ~KnownAccount(last'.payload.destination)
         /\ ~HasAt(last'.payload.destination))
        => /\ JsonDumps(last'.payload) \in lost'
           /\ FirstHeader(last') = "ERROR"
           /\ mail' = mail ]_vars

\* C12: an INBOX_READING_CHOICE whose index is out of range for the acting
\* user's mailbox (any index when the mailbox is empty or absent) is answered
\* ERROR, and the server keeps running with sessions and mailboxes unchanged.
C12_ChoiceOutOfRangeIsError ==
    [][ (/\ Served
         /\ last'.header = "INBOX_READING_CHOICE"
         /\ last'.payload.choice \notin 1..Count(mail, Acting(last'.conn)))
        => /\ FirstHeader(last') = "ERROR"
           /\ running'
           /\ logged_users' = logged_users
           /\ mail' = mail ]_vars

\* len(json.dumps(payload)) for a payload of empty strings: the braces, keys,
\* quotes and separators of the five fields.
JsonOverhead == 75

\* os.path.getsize of a mail file: the length of json.dumps(payload)
FileSize(text) ==
    LET p == JsonLoads(text)
    IN JsonOverhead + Len(p.sender) + Len(p.destination) + Len(p.subject)
       + Len(p.date) + Len(p.content)

RECURSIVE SumSizes(_)
SumSizes(files) ==
    IF files = <<>> THEN 0
    ELSE FileSize(Head(files).text) + SumSizes(Tail(files))

\* json.dumps({"number_of_emails": n, "total_size": size})
JsonStats(n, size) == <<"stats", n, size>>

\* C13: a STATS_REQUEST from a connection bound to u is answered with the
\* number of emails in u's mailbox and the sum of their sizes, (0, 0) for an
\* account without mail.
C13_StatsAnswered ==
    (last.header = "STATS_REQUEST" /\ Acting(last.conn) # NoName)
    => LET u == Acting(last.conn)
       IN /\ last.frames # <<>>
          /\ last.frames[1] =
               JsonStats(Count(mail, u),
                         IF u \in DOMAIN mail THEN SumSizes(mail[u]) ELSE 0)

\* C14: for an account that never received mail, INBOX_READING_REQUEST
\* returns the empty list, not an error, creates nothing on disk and leaves
\* the server running.
C14_NoMailIsEmptyList ==
    [][ (/\ Served
         /\ last'.header = "INBOX_READING_REQUEST"
         /\ Acting(last'.conn) # NoName
         /\ Acting(last'.conn) \notin DOMAIN mail)
        => /\ last'.frames # <<>>
           /\ last'.frames[1] = JsonList(<<>>)
           /\ ~last'.raised
           /\ running'
           /\ dirs' = dirs /\ passwd' = passwd /\ mail' = mail
           /\ lost' = lost ]_vars

\* The mail texts of the accounts bound to connection c.
MailOf(c) ==
    UNION {{mail[u][i].text : i \in DOMAIN mail[u]} :
              u \in BoundTo(logged_users, c) \cap DOMAIN mail}

\* C15: what INBOX_READING_REQUEST and INBOX_READING_CHOICE return on
\* connection c comes from the mailbox of the username bound to c only; a
\* connection without a binding is returned no file and no list entry.
C15_ReadsOwnMailboxOnly ==
    /\ (last.header = "INBOX_READING_CHOICE" /\ last.frames # <<>>)
          => last.frames[1] \in MailOf(last.conn)
    /\ (last.header = "INBOX_READING_REQUEST" /\ last.frames # <<>>)
          => LET l == last.frames[1][2]
             IN \A k \in DOMAIN l :
                   \E t \in MailOf(last.conn) :
                      l[k] = SubjectDisplay(k, JsonLoads(t))

\* C16: a stored email is immutable: no later request changes or removes it,
\* so a mailbox never loses an email and every delivered email stays
\* retrievable.
C16_StoredEmailImmutable ==
    [][ \A u \in DOMAIN mail :
           /\ u \in DOMAIN mail'
           /\ Len(mail'[u]) >= Len(mail[u])
           /\ \A i \in DOMAIN mail[u] :
                 \E j \in DOMAIN mail'[u] : mail'[u][j] = mail[u][i] ]_vars

\* C17: an account's password hash is written exactly once, when its storage
\* area is first created; a later AUTH_REGISTER of a name whose area exists
\* leaves the stored hash unchanged, and no account is ever deleted.
C17_HashWrittenOnce ==
    [][ /\ dirs \subseteq dirs'
        /\ \A u \in DOMAIN passwd :
              u \in DOMAIN passwd' /\ passwd'[u] = passwd[u]
        /\ (Served /\ last'.header = "AUTH_REGISTER"
                   /\ FirstHeader(last') = "OK")
              => /\ last'.payload.username \in DOMAIN passwd'
                 /\ last'.payload.username \notin DOMAIN passwd
                       => passwd'[last'.payload.username] =
                             Sha3Hex(last'.payload.password) ]_vars

\* C18: AUTH_LOGOUT on connection c removes the binding of the username
\* bound to c and leaves the bindings of the other connections unchanged; on
\* an anonymous connection it changes nothing and is not an error: no ERROR
\* frame is written, the request raises only when the send of its answer
\* fails because the client has gone, and when the loop goes on the one
\* answer frame was written. A request that KeyboardInterrupt cut short
\* before _logout ran was not handled and keeps the binding.
C18_LogoutRemovesOwnBinding ==
    [][ (Served /\ last'.header = "AUTH_LOGOUT")
        => /\ Handled => BoundTo(logged_users', last'.conn) = {}
           /\ \A c \in Conns \ {last'.conn} :
                 BoundTo(logged_users', c) = BoundTo(logged_users, c)
           /\ BoundTo(logged_users, last'.conn) = {}
                 => logged_users' = logged_users
           /\ FirstHeader(last') # "ERROR"
           /\ last'.raised => last'.conn \in peer_closed'
           /\ running' => last'.frames = <<JsonNull>> ]_vars

\* An anonymous connection has logged out while the other connection's
\* binding is in place.
C18_WitnessAnonymous ==
    /\ running
    /\ last.header = "AUTH_LOGOUT"
    /\ \E c \in Conns \ {last.conn} : BoundTo(logged_users, c) # {}

\* A bound connection has logged out: on a server started on an empty
\* tree, the second frame read was its AUTH_LOGOUT, after the registration
\* that bound it.
C18_Witness ==
    /\ running
    /\ last.header = "AUTH_LOGOUT"
    /\ last.seq = 2
    /\ DOMAIN passwd # {}
    /\ mail = <<>>
    /\ logged_users = <<>>

\* C19: the list of INBOX_READING_REQUEST is ordered most recent first: the
\* email delivered last has display index 1.
C19_NewestFirst ==
    [][ (/\ Served
         /\ last'.header = "EMAIL_SENDING"
         /\ Stored(mail', last'.payload.destination, last'.payload))
        => mail'[last'.payload.destination][1].text = JsonDumps(last'.payload)
      ]_vars

\* C20: when the relay fails with an SMTP error or a timeout, the sender gets
\* ERROR with a reason string, the relay was attempted exactly once, and the
\* loop keeps running.
C20_RelayFailureReported ==
    (/\ last.header = "EMAIL_SENDING"
     /\ \E i \in DOMAIN last.relays :
           last.relays[i] \in {"SMTPException", "timeout"})
    => /\ Len(last.frames) = 1
       /\ FirstHeader(last) = "ERROR"
       /\ Len(last.frames[1]) = 3 /\ last.frames[1][3] # ""
       /\ Len(last.relays) = 1
       /\ ~last.raised
       /\ running

\* C21: whenever the loop has ended on an exception raised during dispatch
\* (the last frame read raised), every socket that accept() has returned
\* and the listening socket are closed: no socket is open in the
\* terminated state. However the loop ended, the sockets of _client_socs
\* and the listening socket are closed.
C21_TerminatedClosesEverySocket ==
    /\ (~running /\ last.raised)
          => /\ accepted \subseteq sock_closed
             /\ ~server_open
    /\ ~running => /\ Range(client_socs) \subseteq sock_closed
                   /\ ~server_open

\* The loop ended on an exception while two connections were accepted.
C21_Witness ==
    /\ ~running
    /\ last.raised
    /\ Len(client_socs) = 2

\* C22: AUTH_LOGIN changes neither the session registry nor the stored
\* accounts and mail; it is answered OK exactly when the username was already
\* bound to the requesting connection, and ERROR otherwise, whatever the
\* password; when the loop goes on, that frame and run()'s own were both
\* written. No frame is written only when the loop has ended: the payload
\* has no username or password to present, the send failed because the
\* client has gone, or KeyboardInterrupt came first.
C22_LoginOnlyReads ==
    [][ (Served /\ last'.header = "AUTH_LOGIN")
        => /\ logged_users' = logged_users
           /\ passwd' = passwd /\ dirs' = dirs /\ mail' = mail /\ lost' = lost
           /\ last'.frames # <<>>
                 => FirstHeader(last') =
                       IF last'.payload.username
                             \in BoundTo(logged_users, last'.conn)
                       THEN "OK" ELSE "ERROR"
           /\ running' => Len(last'.frames) = 2
           /\ last'.frames = <<>> => ~running'
           /\ last'.raised
                 => \/ last'.conn \in peer_closed'
                    \/ last'.payload = NoPayload("AUTH_LOGIN") ]_vars

\* A login with a password other than the registered one was answered OK.
C22_Witness ==
    /\ running
    /\ last.header = "AUTH_LOGIN"
    /\ FirstHeader(last) = "OK"
    /\ last.payload.username \in DOMAIN passwd
    /\ passwd[last.payload.username] # Sha3Hex(last.payload.password)

\* C23: the session registry never holds more than one binding; only
\* AUTH_REGISTER adds a binding; and an AUTH_REGISTER read while the
\* registry is non-empty, for any requested username, adds no binding,
\* writes no frame and ends the loop: its duplicate check raises
\* (C23_Witness) unless KeyboardInterrupt ends the loop before it.
C23_AtMostOneBinding ==
    /\ [](Len(logged_users) <= 1)
    /\ [][ /\ ~(Keys(logged_users') \subseteq Keys(logged_users))
              => (Served /\ last'.header = "AUTH_REGISTER")
           /\ (Served /\ last'.header = "AUTH_REGISTER" /\ logged_users # <<>>)
              => /\ last'.frames = <<>>
                 /\ ~running'
                 /\ logged_users' = logged_users ]_vars

\* An AUTH_REGISTER of a name other than the bound one has ended the loop.
C23_Witness ==
    /\ last.header = "AUTH_REGISTER"
    /\ last.raised
    /\ logged_users # <<>>
    /\ last.payload.username \notin Keys(logged_users)

\* The listings that os.makedirs and open() for destination dest may change:
\* its own, and for "email" the one of <data>//email, where its folder is made.
Touched(dest) == IF dest = Em THEN {Em, NoName} ELSE {dest}

\* C24: EMAIL_SENDING writes into a mailbox exactly when the payload's
\* sender is a key of the session registry, and then under the destination's
\* directory, created if absent, registered or not; otherwise it attempts one
\* relay and writes nothing to a mailbox or to the lost-mail area. The
\* registry is left unchanged, and the binding of the requesting connection
\* plays no part. A request that KeyboardInterrupt cut short has written
\* or relayed at most that, on the same side. The payload carries its five
\* fields.
C24_LocalWriteIffSenderBound ==
    [][ (/\ Served
         /\ last'.header = "EMAIL_SENDING"
         /\ last'.payload # NoPayload("EMAIL_SENDING"))
        => /\ logged_users' = logged_users
           /\ lost' = lost
           /\ IF last'.payload.sender \in Keys(logged_users)
              THEN /\ Handled
                         => /\ Stored(mail', last'.payload.destination,
                                      last'.payload)
                            /\ TopFolder(last'.payload.destination) \in dirs'
                   /\ last'.relays = <<>>
                   /\ \A u \in DOMAIN mail \ Touched(last'.payload.destination) :
                         u \in DOMAIN mail' /\ mail'[u] = mail[u]
              ELSE /\ mail' = mail
                   /\ dirs' = dirs
                   /\ Len(last'.relays) <= 1
                   /\ Handled => Len(last'.relays) = 1 ]_vars

====
